---- MODULE Spec2Model ----
(***************************************************************************)
(* Display Loop Host: CPPMain/SourceFiles/main.cpp.                        *)
(*                                                                         *)
(* main() is modelled statement by statement; every call into the          *)
(* windowing toolkit is one step.  The toolkit calls are modelled by the   *)
(* contract main() relies on: glfwInit and glfwCreateWindow may fail, the  *)
(* other GLFW calls return.  main() never calls glutInit, so               *)
(* glutDisplayFunc is a call into an uninitialised GLUT: freeglut ends the *)
(* process there with status 1, a GLUT that does not check stores the      *)
(* callback and returns; both outcomes are behaviours of the model.  The   *)
(* user and the toolkit form the environment: a close request may arrive   *)
(* at any time while the window exists, and the toolkit turns it into the  *)
(* window's close flag when events are polled or from its own window       *)
(* procedure.  What a buffer nobody drew into holds is unspecified: the    *)
(* model allows every content.                                             *)
(***************************************************************************)
EXTENDS Integers, Sequences, FiniteSets

VARIABLES
    pc,              \* position of main(); "exited" once the process was
                     \* ended from inside a library call
    glfwState,       \* windowing subsystem: "uninit", "init", "terminated"
    window,          \* the local GLFWwindow* of main(): "NULL" or "w"
    windowLive,      \* the window behind the handle exists
    closeFlag,       \* the window's close flag
    closePending,    \* a user close request waits in the event queue
    contextCurrent,  \* the window's context is current on the thread
    swapInterval,    \* swap interval of the current context
    displayFunc,     \* callback registered with glutDisplayFunc
    frontBuf,        \* buffer on screen
    backBuf,         \* buffer drawn into
    exitStatus,      \* {} while running, {r} once the process ended with r
    trace,           \* calls made and lines written to std::cerr, in order
    closeAt          \* Len(trace) at the moment closeFlag was set

vars == <<pc, glfwState, window, windowLive, closeFlag, closePending,
          contextCurrent, swapInterval, displayFunc, frontBuf, backBuf,
          exitStatus, trace, closeAt>>

----------------------------------------------------------------------------
(* Bounds *)

\* iterations of the event loop entered without a close request waiting;
\* a waiting close request allows one more, so MaxIter + 1 swaps at most
MaxIter == 3

\* pixels of the viewport
NumPixels == 2

----------------------------------------------------------------------------
(* Program constants *)

SwapIntervalArg == 1
InitFailureText == "Failed to initialize GLFW"
CreateFailureText == "Failed to create GLFW window"
FailureStatus == -1
SuccessStatus == 0

\* what freeglut does on a call made before glutInit: fgError writes this
\* line to stderr, then exit(1)
GlutFatalText ==
    "freeglut  ERROR:  Function <glutDisplayFunc> called without first calling 'glutInit'."
GlutFatalStatus == 1

----------------------------------------------------------------------------
(* Frame buffers and the draw routine *)

Pixels == 1..NumPixels

\* black, and one colour standing for every other
Colours == {"black", "white"}

\* a buffer is its pixels and who rendered them
NoBuffer == [pixels |-> <<>>, renderedBy |-> "nobody"]

\* a buffer nobody has drawn into: its content is unspecified, any colours,
\* all black included
UndrawnFrames ==
    {[pixels |-> f, renderedBy |-> "nobody"] : f \in [Pixels -> Colours]}

\* glClear(GL_COLOR_BUFFER_BIT) with the default clear colour (0,0,0,0)
glClear(fb) == [pixels |-> [p \in Pixels |-> "black"], renderedBy |-> "display"]

\* the quadrilateral (-1,-1)..(1,1) covers every pixel of the viewport;
\* glColor3f(0,0,0) paints it black
DrawQuad(fb) ==
    [fb EXCEPT !.pixels = [p \in Pixels |-> "black"],
               !.renderedBy = "display"]

\* void display(): clear, draw the quadrilateral, flush
display(fb) == DrawQuad(glClear(fb))

----------------------------------------------------------------------------
(* Observation helpers over the trace *)

Count(name) == Cardinality({i \in DOMAIN trace : trace[i] = name})

CountAfter(name, k) ==
    Cardinality({i \in DOMAIN trace : i > k /\ trace[i] = name})

Log(name) == trace' = Append(trace, name)

----------------------------------------------------------------------------
Init ==
    /\ pc = "init"
    /\ glfwState = "uninit"
    /\ window = "NULL"
    /\ windowLive = FALSE
    /\ closeFlag = FALSE
    /\ closePending = FALSE
    /\ contextCurrent = FALSE
    /\ swapInterval = 0
    /\ displayFunc = "NULL"
    /\ frontBuf = NoBuffer
    /\ backBuf = NoBuffer
    /\ exitStatus = {}
    /\ trace = <<>>
    /\ closeAt = 0

----------------------------------------------------------------------------
(* main(), lines 22-25 *)

\* if (!glfwInit())
GlfwInit ==
    /\ pc = "init"
    /\ Log("glfwInit")
    /\ \E ok \in BOOLEAN :
         IF ok THEN /\ glfwState' = "init"
                    /\ pc' = "create"
               ELSE /\ glfwState' = glfwState
                    /\ pc' = "init_fail_report"
    /\ UNCHANGED <<window, windowLive, closeFlag, closePending,
                   contextCurrent, swapInterval, displayFunc, frontBuf,
                   backBuf, exitStatus, closeAt>>

\* std::cerr << "Failed to initialize GLFW"
ReportInitFailure ==
    /\ pc = "init_fail_report"
    /\ Log(InitFailureText)
    /\ pc' = "init_fail_return"
    /\ UNCHANGED <<glfwState, window, windowLive, closeFlag, closePending,
                   contextCurrent, swapInterval, displayFunc, frontBuf,
                   backBuf, exitStatus, closeAt>>

\* mutant: the return after the report is missing, main() carries on
ReturnInitFailure_FallThrough ==
    /\ pc = "init_fail_return"
    /\ pc' = "create"
    /\ UNCHANGED <<glfwState, window, windowLive, closeFlag, closePending,
                   contextCurrent, swapInterval, displayFunc, frontBuf,
                   backBuf, exitStatus, trace, closeAt>>

\* return -1
ReturnInitFailure ==
    /\ pc = "init_fail_return"
    /\ exitStatus' = {FailureStatus}
    /\ pc' = "done"
    /\ UNCHANGED <<glfwState, window, windowLive, closeFlag, closePending,
                   contextCurrent, swapInterval, displayFunc, frontBuf,
                   backBuf, trace, closeAt>>

----------------------------------------------------------------------------
(* main(), lines 28-33 *)

\* mutant: a failed creation is tried again
AfterCreate_Retry(w) == IF w = "NULL" THEN "create" ELSE "bind"

\* mutant: the null check is missing
AfterCreate_NoNullCheck(w) == "bind"

\* the branch taken by  if (!window)
AfterCreate(w) == IF w = "NULL" THEN "create_fail_terminate" ELSE "bind"

\* GLFWwindow* window = glfwCreateWindow(800, 600, "Chess Renderer", 0, 0)
GlfwCreateWindow ==
    /\ pc = "create"
    /\ Log("glfwCreateWindow")
    /\ \E w \in {"NULL", "w"} :
         /\ window' = w
         /\ windowLive' = (w # "NULL")
         /\ pc' = AfterCreate(w)
         /\ IF w = "NULL"
              THEN UNCHANGED <<frontBuf, backBuf>>
              ELSE /\ frontBuf' \in UndrawnFrames
                   /\ backBuf' \in UndrawnFrames
    /\ UNCHANGED <<glfwState, closeFlag, closePending, contextCurrent,
                   swapInterval, displayFunc, exitStatus, closeAt>>

\* glfwTerminate(): destroys remaining windows, releases the subsystem
GlfwTerminateCall ==
    /\ Log("glfwTerminate")
    /\ glfwState' = "terminated"
    /\ windowLive' = FALSE
    /\ contextCurrent' = FALSE

\* mutant: the failure path forgets the cleanup
TerminateOnCreateFailure_NoCleanup ==
    /\ pc = "create_fail_terminate"
    /\ pc' = "create_fail_report"
    /\ UNCHANGED <<glfwState, window, windowLive, closeFlag, closePending,
                   contextCurrent, swapInterval, displayFunc, frontBuf,
                   backBuf, exitStatus, trace, closeAt>>

\* glfwTerminate() of the window-creation failure path
TerminateOnCreateFailure ==
    /\ pc = "create_fail_terminate"
    /\ GlfwTerminateCall
    /\ pc' = "create_fail_report"
    /\ UNCHANGED <<window, closeFlag, closePending, swapInterval,
                   displayFunc, frontBuf, backBuf, exitStatus, closeAt>>

\* std::cerr << "Failed to create GLFW window"
ReportCreateFailure ==
    /\ pc = "create_fail_report"
    /\ Log(CreateFailureText)
    /\ pc' = "create_fail_return"
    /\ UNCHANGED <<glfwState, window, windowLive, closeFlag, closePending,
                   contextCurrent, swapInterval, displayFunc, frontBuf,
                   backBuf, exitStatus, closeAt>>

\* return -1
ReturnCreateFailure ==
    /\ pc = "create_fail_return"
    /\ exitStatus' = {FailureStatus}
    /\ pc' = "done"
    /\ UNCHANGED <<glfwState, window, windowLive, closeFlag, closePending,
                   contextCurrent, swapInterval, displayFunc, frontBuf,
                   backBuf, trace, closeAt>>

----------------------------------------------------------------------------
(* main(), lines 36-38 *)

\* glfwMakeContextCurrent(window)
GlfwMakeContextCurrent ==
    /\ pc = "bind"
    /\ Log("glfwMakeContextCurrent")
    /\ contextCurrent' = TRUE
    /\ pc' = "swap_interval"
    /\ UNCHANGED <<glfwState, window, windowLive, closeFlag, closePending,
                   swapInterval, displayFunc, frontBuf, backBuf, exitStatus,
                   closeAt>>

\* glfwSwapInterval(1)
GlfwSwapInterval ==
    /\ pc = "swap_interval"
    /\ Log("glfwSwapInterval")
    /\ swapInterval' = SwapIntervalArg
    /\ pc' = "register_draw"
    /\ UNCHANGED <<glfwState, window, windowLive, closeFlag, closePending,
                   contextCurrent, displayFunc, frontBuf, backBuf,
                   exitStatus, closeAt>>

\* glutDisplayFunc(display), called without a glutInit before it.
\* "fatal": freeglut reports the uninitialised use on stderr and calls
\* exit(1) inside the call; main() does not go on, nothing is released.
\* "returns": a GLUT that does not check stores the callback; it is not
\* called.
GlutDisplayFunc ==
    /\ pc = "register_draw"
    /\ \E outcome \in {"fatal", "returns"} :
         IF outcome = "fatal"
         THEN /\ trace' = trace \o <<"glutDisplayFunc", GlutFatalText>>
              /\ exitStatus' = {GlutFatalStatus}
              /\ pc' = "exited"
              /\ UNCHANGED displayFunc
         ELSE /\ Log("glutDisplayFunc")
              /\ displayFunc' = "display"
              /\ pc' = "loop_check"
              /\ UNCHANGED exitStatus
    /\ UNCHANGED <<glfwState, window, windowLive, closeFlag, closePending,
                   contextCurrent, swapInterval, frontBuf, backBuf, closeAt>>

----------------------------------------------------------------------------
(* main(), lines 40-43 *)

\* mutant: the negation of the loop condition is missing
AfterShouldClose_Inverted(flag) == IF flag THEN "swap" ELSE "destroy"

\* the branch taken by  while (!glfwWindowShouldClose(window))
AfterShouldClose(flag) == IF flag THEN "destroy" ELSE "swap"

\* while (!glfwWindowShouldClose(window))
GlfwWindowShouldClose ==
    /\ pc = "loop_check"
    /\ closeFlag \/ closePending \/ Count("glfwSwapBuffers") < MaxIter
    /\ Log("glfwWindowShouldClose")
    /\ pc' = AfterShouldClose(closeFlag)
    /\ UNCHANGED <<glfwState, window, windowLive, closeFlag, closePending,
                   contextCurrent, swapInterval, displayFunc, frontBuf,
                   backBuf, exitStatus, closeAt>>

\* mutant: the iteration ends after the swap, events are not polled
GlfwSwapBuffers_SkipPoll ==
    /\ pc = "swap"
    /\ Count("glfwSwapBuffers") <= MaxIter
    /\ Log("glfwSwapBuffers")
    /\ frontBuf' = backBuf
    /\ backBuf' \in UndrawnFrames
    /\ pc' = "loop_check"
    /\ UNCHANGED <<glfwState, window, windowLive, closeFlag, closePending,
                   contextCurrent, swapInterval, displayFunc, exitStatus,
                   closeAt>>

\* glfwSwapBuffers(window): the back buffer goes on screen; what the back
\* buffer holds afterwards is unspecified
GlfwSwapBuffers ==
    /\ pc = "swap"
    /\ Count("glfwSwapBuffers") <= MaxIter
    /\ Log("glfwSwapBuffers")
    /\ frontBuf' = backBuf
    /\ backBuf' \in UndrawnFrames
    /\ pc' = "poll"
    /\ UNCHANGED <<glfwState, window, windowLive, closeFlag, closePending,
                   contextCurrent, swapInterval, displayFunc, exitStatus,
                   closeAt>>

\* glfwPollEvents(): handles the queued events; a queued close request sets
\* the close flag.  No GLFW callback is installed, and the GLUT display
\* callback is not GLFW's to call.
GlfwPollEvents ==
    /\ pc = "poll"
    /\ Log("glfwPollEvents")
    /\ closeFlag' = (closeFlag \/ closePending)
    /\ closePending' = FALSE
    /\ closeAt' = IF ~closeFlag /\ closePending THEN Len(trace) + 1
                                               ELSE closeAt
    /\ pc' = "loop_check"
    /\ UNCHANGED <<glfwState, window, windowLive, contextCurrent,
                   swapInterval, displayFunc, frontBuf, backBuf, exitStatus>>

----------------------------------------------------------------------------
(* main(), lines 45-47 *)

\* glfwDestroyWindow(window)
GlfwDestroyWindow ==
    /\ pc = "destroy"
    /\ Log("glfwDestroyWindow")
    /\ windowLive' = FALSE
    /\ contextCurrent' = FALSE
    /\ pc' = "terminate"
    /\ UNCHANGED <<glfwState, window, closeFlag, closePending, swapInterval,
                   displayFunc, frontBuf, backBuf, exitStatus, closeAt>>

\* glfwTerminate()
GlfwTerminate ==
    /\ pc = "terminate"
    /\ GlfwTerminateCall
    /\ pc' = "return_ok"
    /\ UNCHANGED <<window, closeFlag, closePending, swapInterval,
                   displayFunc, frontBuf, backBuf, exitStatus, closeAt>>

\* return 0
ReturnOk ==
    /\ pc = "return_ok"
    /\ exitStatus' = {SuccessStatus}
    /\ pc' = "done"
    /\ UNCHANGED <<glfwState, window, windowLive, closeFlag, closePending,
                   contextCurrent, swapInterval, displayFunc, frontBuf,
                   backBuf, trace, closeAt>>

----------------------------------------------------------------------------
(* Environment *)

\* the user asks to close the window
UserCloseRequest ==
    /\ pc # "exited"
    /\ windowLive
    /\ ~closeFlag
    /\ ~closePending
    /\ closePending' = TRUE
    /\ UNCHANGED <<pc, glfwState, window, windowLive, closeFlag,
                   contextCurrent, swapInterval, displayFunc, frontBuf,
                   backBuf, exitStatus, trace, closeAt>>

\* the toolkit's window procedure handles the close request outside of
\* glfwPollEvents
ToolkitSetsCloseFlag ==
    /\ pc # "exited"
    /\ windowLive
    /\ closePending
    /\ ~closeFlag
    /\ closeFlag' = TRUE
    /\ closePending' = FALSE
    /\ closeAt' = Len(trace)
    /\ UNCHANGED <<pc, glfwState, window, windowLive, contextCurrent,
                   swapInterval, displayFunc, frontBuf, backBuf, exitStatus,
                   trace>>

----------------------------------------------------------------------------
Main ==
    \/ GlfwInit
    \/ ReportInitFailure
    \/ ReturnInitFailure
    \/ GlfwCreateWindow
    \/ TerminateOnCreateFailure
    \/ ReportCreateFailure
    \/ ReturnCreateFailure
    \/ GlfwMakeContextCurrent
    \/ GlfwSwapInterval
    \/ GlutDisplayFunc
    \/ GlfwWindowShouldClose
    \/ GlfwSwapBuffers
    \/ GlfwPollEvents
    \/ GlfwDestroyWindow
    \/ GlfwTerminate
    \/ ReturnOk

Environment ==
    \/ UserCloseRequest
    \/ ToolkitSetsCloseFlag

Next == Main \/ Environment

Spec == Init /\ [][Next]_vars

\* main() is the only thread and none of its calls blocks for ever
SpecFair == Spec /\ WF_vars(Main)

----------------------------------------------------------------------------
(* Vocabulary of the properties *)

IsPrefix(s, t) ==
    /\ Len(s) <= Len(t)
    /\ \A i \in 1..Len(s) : s[i] = t[i]

\* index of the first / last occurrence of a call, 0 when there is none
FirstIndex(name) ==
    IF Count(name) = 0 THEN 0
    ELSE CHOOSE i \in DOMAIN trace :
           /\ trace[i] = name
           /\ \A j \in DOMAIN trace : trace[j] = name => i <= j

LastIndex(name) ==
    IF Count(name) = 0 THEN 0
    ELSE CHOOSE i \in DOMAIN trace :
           /\ trace[i] = name
           /\ \A j \in DOMAIN trace : trace[j] = name => j <= i

\* the process is over: main() returned, or a library call ended it
ProcessEnded == pc \in {"done", "exited"}

LoopPcs == {"loop_check", "swap", "poll"}
ShutdownPcs == {"destroy", "terminate", "return_ok"}

\* what the two fallible calls returned
InitFailed == Count("glfwInit") > 0 /\ glfwState = "uninit"
InitSucceeded == glfwState # "uninit"
CreateFailed == Count("glfwCreateWindow") > 0 /\ window = "NULL"
WindowCreated == window # "NULL"

\* the last evaluation of the loop condition saw the close flag set
ObservedClose ==
    closeFlag /\ LastIndex("glfwWindowShouldClose") > closeAt

InitFailureRun == <<"glfwInit", InitFailureText>>

CreateFailureRun ==
    <<"glfwInit", "glfwCreateWindow", "glfwTerminate", CreateFailureText>>

SetupOrder ==
    <<"glfwInit", "glfwCreateWindow", "glfwMakeContextCurrent",
      "glfwSwapInterval", "glutDisplayFunc">>

IsSetupCall(name) == name \in {SetupOrder[i] : i \in DOMAIN SetupOrder}

GlfwCalls ==
    {"glfwInit", "glfwCreateWindow", "glfwMakeContextCurrent",
     "glfwSwapInterval", "glfwWindowShouldClose", "glfwSwapBuffers",
     "glfwPollEvents", "glfwDestroyWindow", "glfwTerminate"}

\* the host's lifecycle state, read off the position of main()
Lifecycle ==
    CASE pc \in ShutdownPcs \/ glfwState = "terminated" -> "Closed"
      [] pc \in LoopPcs -> "Running"
      [] windowLive -> "WindowOpen"
      [] glfwState = "init" -> "Initialized"
      [] OTHER -> "Uninitialized"

Rank(st) ==
    CASE st = "Uninitialized" -> 0
      [] st = "Initialized" -> 1
      [] st = "WindowOpen" -> 2
      [] st = "Running" -> 3
      [] st = "Closed" -> 4

----------------------------------------------------------------------------
(* Properties *)

\* C1: when glfwInit fails, main reports "Failed to initialize GLFW" and then
\* returns -1; glfwInit and the report are all that happens in that run: no
\* window creation, context binding, loop iteration, window destruction or
\* subsystem teardown.
C1_InitFailureExits ==
    InitFailed =>
        /\ IsPrefix(trace, InitFailureRun)
        /\ exitStatus \subseteq {-1}
        /\ exitStatus = {-1} => trace = InitFailureRun
        /\ pc = "done" => exitStatus = {-1}
        /\ ~windowLive /\ window = "NULL"

C1_Witness ==
    InitFailed /\ pc = "done" /\ exitStatus = {-1} /\ trace = InitFailureRun

\* C2: when glfwCreateWindow returns no handle after a successful glfwInit,
\* glfwTerminate runs exactly once, before the report and before main
\* returns -1; the loop is not entered and no window is destroyed.
C2_CreateFailureCleansUp ==
    CreateFailed =>
        /\ IsPrefix(trace, CreateFailureRun)
        /\ exitStatus \subseteq {-1}
        /\ exitStatus = {-1} => trace = CreateFailureRun
        /\ pc = "done" => exitStatus = {-1} /\ glfwState = "terminated"
        /\ pc \notin LoopPcs

C2_Witness ==
    /\ CreateFailed
    /\ pc = "done"
    /\ exitStatus = {-1}
    /\ Count("glfwTerminate") = 1
    /\ trace = CreateFailureRun

\* C3: after the close flag is set, at most one more buffer swap, one more
\* event poll and one more evaluation of the loop condition happen; the
\* loop's exit is followed by exactly one glfwDestroyWindow and one
\* glfwTerminate, in that order, and nothing else.
C3_CloseEndsLoopWithinOneIteration ==
    /\ closeFlag =>
         /\ CountAfter("glfwSwapBuffers", closeAt) <= 1
         /\ CountAfter("glfwPollEvents", closeAt) <= 1
         /\ CountAfter("glfwWindowShouldClose", closeAt) <= 1
    /\ pc \in ShutdownPcs => ObservedClose
    /\ (pc = "done" /\ WindowCreated) =>
         /\ ObservedClose
         /\ Count("glfwDestroyWindow") = 1
         /\ Count("glfwTerminate") = 1
         /\ Len(trace) = LastIndex("glfwWindowShouldClose") + 2
         /\ trace[Len(trace) - 1] = "glfwDestroyWindow"
         /\ trace[Len(trace)] = "glfwTerminate"

\* the flag was set inside the loop, before the swap of an iteration
C3_Witness ==
    /\ pc = "done"
    /\ closeFlag
    /\ closeAt >= FirstIndex("glfwWindowShouldClose")
    /\ CountAfter("glfwSwapBuffers", closeAt) = 1
    /\ CountAfter("glfwPollEvents", closeAt) = 1
    /\ Count("glfwDestroyWindow") = 1
    /\ Count("glfwTerminate") = 1

\* C4: on every path on which the process ends, a successful glfwInit is
\* matched by exactly one glfwTerminate and a successful glfwCreateWindow
\* by exactly one glfwDestroyWindow, a failed one by none; whoever leaves
\* the loop goes through the shutdown step.
C4_ResourceSymmetry ==
    /\ Count("glfwDestroyWindow") <= 1
    /\ Count("glfwTerminate") <= 1
    /\ Count("glfwDestroyWindow") = 1 => WindowCreated
    /\ Count("glfwTerminate") = 1 => InitSucceeded
    /\ (WindowCreated /\ pc \notin LoopPcs
           /\ Count("glfwWindowShouldClose") > 0) =>
         pc \in ShutdownPcs \cup {"done"}
    /\ ProcessEnded =>
         /\ Count("glfwTerminate") = (IF InitSucceeded THEN 1 ELSE 0)
         /\ Count("glfwDestroyWindow") = (IF WindowCreated THEN 1 ELSE 0)
         /\ ~windowLive
         /\ glfwState # "init"

\* C5: the lifecycle state never moves backwards along Uninitialized,
\* Initialized, WindowOpen, Running, Closed, so Running is not re-entered
\* after Closed; glfwInit, glfwCreateWindow, glfwMakeContextCurrent,
\* glfwSwapInterval and glutDisplayFunc each happen at most once, in that
\* order.
C5_LinearLifecycle ==
    /\ [][Rank(Lifecycle') >= Rank(Lifecycle)]_vars
    /\ [](IsPrefix(SelectSeq(trace, IsSetupCall), SetupOrder))

C5_Witness ==
    /\ Lifecycle = "Closed"
    /\ pc = "done"
    /\ SelectSeq(trace, IsSetupCall) = SetupOrder
    /\ Count("glfwPollEvents") >= 2

\* C6: the process exit status is 0 exactly when glfwInit succeeded, the
\* window was created and the loop condition saw the close flag set; it is
\* -1 exactly when glfwInit or glfwCreateWindow failed; there is no other
\* exit status.
C6_ExitStatus ==
    /\ ~ProcessEnded => exitStatus = {}
    /\ ProcessEnded =>
         /\ exitStatus \in {{0}, {-1}}
         /\ exitStatus = {0} <=>
              (InitSucceeded /\ WindowCreated /\ ObservedClose)
         /\ exitStatus = {-1} <=> (InitFailed \/ CreateFailed)

\* C7: every buffer a swap of the loop puts on screen has been rendered by
\* the draw routine: it holds the black quadrilateral over the whole
\* viewport.
C7_SwapPresentsDrawnFrame ==
    Count("glfwSwapBuffers") > 0 => frontBuf = display(frontBuf)

\* C8: the loop is left only with the close flag set; a close request leads
\* to Closed with the teardown done and exit status 0; while the close flag
\* is not set the loop is not left and the teardown is not reached.
C8_CloseFlagIsTheOnlyWayOut ==
    /\ [][(pc \in LoopPcs /\ pc' \notin LoopPcs) => closeFlag]_vars
    /\ (closePending \/ closeFlag) ~>
         (/\ pc = "done"
          /\ exitStatus = {0}
          /\ Lifecycle = "Closed"
          /\ Count("glfwDestroyWindow") = 1
          /\ Count("glfwTerminate") = 1)
    /\ []((WindowCreated /\ ~closeFlag) =>
            /\ pc \notin ShutdownPcs \cup {"done"}
            /\ Count("glfwDestroyWindow") = 0
            /\ Count("glfwTerminate") = 0)

\* C9: each iteration evaluates the loop condition once, then swaps the
\* buffers, then polls events; at loop exit there are as many swaps as
\* polls and one evaluation more; a close flag set before the first
\* evaluation means no swap and no poll at all.
C9_IterationOrder ==
    /\ \A i \in DOMAIN trace :
         /\ trace[i] = "glfwWindowShouldClose" =>
              /\ i > 1
              /\ trace[i - 1] \in {"glutDisplayFunc", "glfwPollEvents"}
              /\ i < Len(trace) =>
                   trace[i + 1] \in {"glfwSwapBuffers", "glfwDestroyWindow"}
         /\ trace[i] = "glfwSwapBuffers" =>
              i > 1 /\ trace[i - 1] = "glfwWindowShouldClose"
         /\ trace[i] = "glfwPollEvents" =>
              i > 1 /\ trace[i - 1] = "glfwSwapBuffers"
    /\ pc = "swap" => trace[Len(trace)] = "glfwWindowShouldClose"
    /\ pc = "poll" => trace[Len(trace)] = "glfwSwapBuffers"
    /\ (WindowCreated /\ pc \in ShutdownPcs \cup {"done"}) =>
         /\ Count("glfwSwapBuffers") = Count("glfwPollEvents")
         /\ Count("glfwWindowShouldClose") = Count("glfwSwapBuffers") + 1
    /\ (closeFlag /\ CountAfter("glfwWindowShouldClose", closeAt)
                       = Count("glfwWindowShouldClose")) =>
         /\ Count("glfwSwapBuffers") = 0
         /\ Count("glfwPollEvents") = 0

C9_Witness ==
    /\ pc = "done"
    /\ WindowCreated
    /\ Count("glfwSwapBuffers") >= 2
    /\ Count("glfwSwapBuffers") = Count("glfwPollEvents")

\* the close flag is set before the loop condition is first evaluated
C9_ZeroIterations ==
    /\ pc = "done"
    /\ closeFlag
    /\ closeAt < FirstIndex("glfwWindowShouldClose")
    /\ Count("glfwSwapBuffers") = 0
    /\ Count("glfwPollEvents") = 0

\* C10: every call taking the window handle is made while the window
\* exists; glfwSwapInterval is called with the context current; the window
\* is destroyed before glfwTerminate; no GLFW call precedes a successful
\* glfwInit or follows glfwTerminate.
C10_ResourceLifetimes ==
    /\ pc \in {"bind", "loop_check", "swap", "destroy"} =>
         windowLive /\ window # "NULL"
    /\ pc = "swap_interval" => contextCurrent /\ windowLive
    /\ pc = "terminate" => ~windowLive /\ Count("glfwDestroyWindow") = 1
    /\ pc \in {"create", "create_fail_terminate", "bind", "swap_interval",
               "loop_check", "swap", "poll", "destroy", "terminate"} =>
         glfwState = "init"
    /\ glfwState = "uninit" =>
         \A i \in DOMAIN trace : trace[i] \in GlfwCalls => trace[i] = "glfwInit"
    /\ glfwState = "terminated" =>
         \A i \in DOMAIN trace :
            trace[i] \in GlfwCalls => i <= LastIndex("glfwTerminate")
    /\ Count("glfwDestroyWindow") > 0 /\ Count("glfwTerminate") > 0 =>
         LastIndex("glfwDestroyWindow") < FirstIndex("glfwTerminate")

C10_Witness ==
    /\ pc = "done"
    /\ glfwState = "terminated"
    /\ Count("glfwMakeContextCurrent") = 1
    /\ Count("glfwSwapInterval") = 1
    /\ LastIndex("glfwDestroyWindow") + 1 = FirstIndex("glfwTerminate")
    /\ Count("glfwSwapBuffers") = 1

====
